---- MODULE Spec2Model ----
(***************************************************************************)
(* txt2utf8: the converter of src/convertor.py (the module main.py         *)
(* imports), its batch driver and its streaming transcoder.                *)
(* src/converter.py, an earlier variant of the same class that main.py     *)
(* does not import, is not modelled.                                       *)
(*                                                                         *)
(* Spec      one call of the public API over a small file tree: either     *)
(*           Converter.batch_convert (asyncio tasks gated by a semaphore,  *)
(*           each conversion running in a thread) or one Converter.convert *)
(*           call, and the end of the command-line process of main.py      *)
(*           around it. File contents are abstract there (who wrote the    *)
(*           file, how far).                                               *)
(* FairSpec  batch_convert alone, with the fairness its scheduling gives,  *)
(*           for the questions about its progress.                         *)
(* SpecCopy  one conversion of one file at the level of bytes: the         *)
(*           classifier's label, the decoder TextIOWrapper is given, the   *)
(*           read/write loop of _stream_copy.                              *)
(***************************************************************************)
EXTENDS Integers, Sequences, FiniteSets, TLC

(***************************************************************************)
(* Bounds of the model.                                                    *)
(***************************************************************************)
\* the workers argument of batch_convert is drawn from -1..MaxWorkers
MaxWorkers == 2
\* an input file of SpecCopy is made of at most MaxTokens tokens
MaxTokens == 3
\* Converter.READ_CHARS and Converter.DETECT_MAX_BYTES (1 MiB each in the
\* source), scaled to the files of the model
READ_CHARS == 2
DETECT_MAX_BYTES == 3

(***************************************************************************)
(* File names are sequences of characters, paths are sequences of names;   *)
(* the empty path is the working directory.                                *)
(***************************************************************************)
n_in == <<"i", "n">>
n_sub == <<"s", "u", "b">>
n_out == <<"o", "u", "t">>
n_out_d == <<"o", "u", "t", ".", "d">>
n_ghost == <<"g", "h", "o", "s", "t">>
n_a_txt == <<"a", ".", "t", "x", "t">>
n_B_TXT == <<"B", ".", "T", "X", "T">>
n_c_csv == <<"c", ".", "c", "s", "v">>
n_d_txt == <<"d", ".", "t", "x", "t">>

p_in == <<n_in>>
p_a == <<n_in, n_a_txt>>
p_B == <<n_in, n_B_TXT>>
p_c == <<n_in, n_c_csv>>
p_d == <<n_in, n_d_txt>>
p_sub == <<n_in, n_sub>>
p_sub_a == <<n_in, n_sub, n_a_txt>>
p_ghost == <<n_ghost>>
p_out == <<n_out>>
p_out_a == <<n_out, n_a_txt>>
p_out_d == <<n_out_d>>

dot_txt == <<".", "t", "x", "t">>

Max(a, b) == IF a >= b THEN a ELSE b

\* str.lower() on the characters the model's names use
LowerChar(c) ==
    CASE c = "A" -> "a"
      [] c = "B" -> "b"
      [] c = "T" -> "t"
      [] c = "X" -> "x"
      [] OTHER -> c

Lower(s) == [k \in 1..Len(s) |-> LowerChar(s[k])]

\* PurePath.name: the last component, '' for the empty path
Name(p) == IF Len(p) = 0 THEN <<>> ELSE p[Len(p)]

\* PurePath.parent
Parent(p) == IF Len(p) = 0 THEN p ELSE SubSeq(p, 1, Len(p) - 1)

\* PurePath.suffix: from the last dot of the name, unless the name has no dot,
\* starts with its only dot or ends with a dot
Suffix(p) ==
    LET nm == Name(p)
        dots == {k \in 1..Len(nm) : nm[k] = "."}
    IN  IF dots = {} THEN <<>>
        ELSE LET i == CHOOSE k \in dots : \A j \in dots : j <= k
             IN  IF 1 < i /\ i < Len(nm) THEN SubSeq(nm, i, Len(nm)) ELSE <<>>

(***************************************************************************)
(* The file system: a function from the paths that exist to their entry.   *)
(* A file's data says who wrote it ("by"), how far ("st") and, for an      *)
(* input, what the detector and the decoder make of its bytes ("q"):       *)
(*   text     decodes under the detected encoding                          *)
(*   binary   the classifier finds no match                                *)
(*   badtail  the sample is classified, bytes after it are invalid         *)
(***************************************************************************)
Qualities == {"text", "binary", "badtail"}

Dir == [kind |-> "dir"]
File(by, st, q) == [kind |-> "file", by |-> by, st |-> st, q |-> q]

exists(f, p) == p = <<>> \/ p \in DOMAIN f
is_dir(f, p) == p = <<>> \/ (p \in DOMAIN f /\ f[p].kind = "dir")
is_file(f, p) == p \in DOMAIN f /\ f[p].kind = "file"

\* f with path p bound to entry e
Put(f, p, e) == [q \in DOMAIN f \cup {p} |-> IF q = p THEN e ELSE f[q]]

Prefixes(p) == {SubSeq(p, 1, k) : k \in 1..Len(p)}

\* a mkdir that never fails
MkdirFails_Never(f, p) == FALSE

\* Path.mkdir(parents=True, exist_ok=True) raises when the path or one of its
\* ancestors exists and is not a directory
MkdirFails(f, p) == \E q \in Prefixes(p) : is_file(f, q)

Mkdir(f, p) ==
    [q \in DOMAIN f \cup Prefixes(p) |-> IF q \in DOMAIN f THEN f[q] ELSE Dir]

\* who wrote a file that was there before the run: the input files' author, an
\* earlier run; a file the run writes carries the path of the input it is the
\* conversion of
by_orig == <<<<"o", "r", "i", "g">>>>
by_old == <<<<"o", "l", "d">>>>

\* the tree every run starts from; qa is the quality of in/a.txt and outState
\* says what is at out: nothing, a directory holding a.txt, a regular file, or
\* a directory holding a directory named a.txt
Tree(qa, outState) ==
    LET base == (p_in :> Dir) @@ (p_a :> File(by_orig, "full", qa))
                @@ (p_B :> File(by_orig, "full", "text"))
                @@ (p_c :> File(by_orig, "full", "text"))
                @@ (p_d :> Dir) @@ (p_sub :> Dir)
                @@ (p_sub_a :> File(by_orig, "full", "text"))
    IN  CASE outState = "absent" -> base
          [] outState = "dir" ->
               base @@ (p_out :> Dir) @@ (p_out_a :> File(by_old, "full", "text"))
          [] outState = "file" -> base @@ (p_out :> File(by_old, "full", "text"))
          [] outState = "adir" -> base @@ (p_out :> Dir) @@ (p_out_a :> Dir)

OutStates == {"absent", "dir", "file", "adir"}

(***************************************************************************)
(* Pure helpers of Converter.                                              *)
(***************************************************************************)
\* fnmatch of the pattern *.txt on one name: case-sensitive on POSIX,
\* case-insensitive on Windows
MatchStarTxt(nm, posix) ==
    /\ Len(nm) >= 4
    /\ LET tail == SubSeq(nm, Len(nm) - 3, Len(nm))
       IN  IF posix THEN tail = dot_txt ELSE Lower(tail) = dot_txt

\* root.glob("**/*.txt") / root.glob("*.txt")
Glob(f, root, recursive, posix) ==
    {p \in DOMAIN f :
        /\ Len(p) > Len(root)
        /\ SubSeq(p, 1, Len(root)) = root
        /\ (recursive \/ Len(p) = Len(root) + 1)
        /\ MatchStarTxt(Name(p), posix)}

\* _collect_txt_files, after the existence check
_collect_txt_files(f, root, recursive, posix) ==
    IF is_file(f, root)
    THEN IF Lower(Suffix(root)) = dot_txt THEN {root} ELSE {}
    ELSE {p \in Glob(f, root, recursive, posix) : is_file(f, p)}

\* a resolution that applies the directory rule whatever expect_dir says
_make_output_path_AlwaysDir(f, input_path, output_spec, expect_dir) ==
    Append(IF Suffix(output_spec) = <<>> THEN output_spec ELSE Parent(output_spec),
           Name(input_path))

_make_output_path(f, input_path, output_spec, expect_dir) ==
    IF expect_dir
    THEN LET base == IF Suffix(output_spec) = <<>> THEN output_spec
                     ELSE Parent(output_spec)
         IN  Append(base, Name(input_path))
    ELSE IF Suffix(output_spec) = <<>> \/ is_dir(f, output_spec)
         THEN Append(output_spec, Name(input_path))
         ELSE output_spec

\* the two tests in the other order
_ensure_input_txt_TypeFirst(f, path) ==
    IF Lower(Suffix(path)) # dot_txt THEN "ValueError"
    ELSE IF ~is_file(f, path) THEN "FileNotFoundError"
    ELSE "ok"

\* _ensure_input_txt: the exception it raises, or "ok"
_ensure_input_txt(f, path) ==
    IF ~is_file(f, path) THEN "FileNotFoundError"
    ELSE IF Lower(Suffix(path)) # dot_txt THEN "ValueError"
    ELSE "ok"

\* a semaphore built from the argument as given
SemInit_Raw(workers) == workers

\* Semaphore(max(1, workers))
SemInit(workers) == Max(1, workers)

(***************************************************************************)
(* Bytes, characters and codecs. A byte is a number 0..255, a character a  *)
(* code point. The codecs are those Python gives TextIOWrapper for the     *)
(* labels below, decoding strictly (TextIOWrapper's default errors mode).  *)
(***************************************************************************)
\* U+FEFF in UTF-8
BOM == <<239, 187, 191>>

\* the pieces input files are made of: a letter, an UTF-8 byte-order mark, a
\* byte invalid in UTF-8 (a letter in cp1251), a byte cp1251 does not define,
\* the first two bytes of a three-byte UTF-8 sequence, a line feed and a
\* carriage return
LF == <<10>>
CR == <<13>>
Tokens == {<<65>>, BOM, <<255>>, <<152>>, <<239, 187>>, LF, CR}

RECURSIVE Flatten(_)
Flatten(ss) == IF ss = <<>> THEN <<>> ELSE Head(ss) \o Flatten(Tail(ss))

Contents ==
    {Flatten(ts) : ts \in UNION {[1..n -> Tokens] : n \in 0..MaxTokens}}

\* labels the classifier answers with, as character sequences
e_utf_8 == <<"u", "t", "f", "_", "8">>
e_cp1251 == <<"c", "p", "1", "2", "5", "1">>
e_latin_1 == <<"l", "a", "t", "i", "n", "_", "1">>
e_utf_8_sig == <<"u", "t", "f", "-", "8", "-", "s", "i", "g">>
Labels == {e_utf_8, e_cp1251, e_latin_1}

\* str.replace("_", "-")
Dashed(s) == [k \in 1..Len(s) |-> IF s[k] = "_" THEN "-" ELSE s[k]]

\* sub in s
Contains(sub, s) ==
    \E k \in 0..(Len(s) - Len(sub)) : SubSeq(s, k + 1, k + Len(sub)) = sub

\* convert's stream_enc
StreamEnc(source_enc) ==
    IF Contains(<<"u", "t", "f", "-", "8">>, Dashed(Lower(source_enc)))
    THEN e_utf_8_sig
    ELSE source_enc

\* the number of continuation bytes an UTF-8 lead byte announces, -1 for a byte
\* that cannot start a sequence
Utf8Need(b) ==
    IF b < 128 THEN 0
    ELSE IF b >= 194 /\ b <= 223 THEN 1
    ELSE IF b >= 224 /\ b <= 239 THEN 2
    ELSE IF b >= 240 /\ b <= 244 THEN 3
    ELSE -1

IsCont(b) == b >= 128 /\ b <= 191

\* one character decoded at offset pos: st is "ok" (cp, n bytes long), "bad"
\* (an invalid byte) or "short" (the data ends inside a sequence)
DecodeUtf8(bytes, pos) ==
    LET b == bytes[pos + 1]
        need == Utf8Need(b)
        have == Len(bytes) - pos - 1
        upto == IF have < need THEN have ELSE need
    IN  IF need = -1 THEN [st |-> "bad", cp |-> 0, n |-> 0]
        ELSE IF \E k \in 1..upto : ~IsCont(bytes[pos + 1 + k])
        THEN [st |-> "bad", cp |-> 0, n |-> 0]
        ELSE IF have < need THEN [st |-> "short", cp |-> 0, n |-> 0]
        ELSE [st |-> "ok", n |-> need + 1,
              cp |-> CASE need = 0 -> b
                       [] need = 1 -> (b % 32) * 64 + (bytes[pos + 2] % 64)
                       [] need = 2 -> (b % 16) * 4096 + (bytes[pos + 2] % 64) * 64
                                      + (bytes[pos + 3] % 64)
                       [] need = 3 -> (b % 8) * 262144
                                      + (bytes[pos + 2] % 64) * 4096
                                      + (bytes[pos + 3] % 64) * 64
                                      + (bytes[pos + 4] % 64)]

\* cp1251 on the bytes of the model: ASCII, the Cyrillic block 0xC0..0xFF,
\* 0xBB and 0xBF; 0x98 is undefined
DecodeCp1251(bytes, pos) ==
    LET b == bytes[pos + 1]
    IN  IF b < 128 THEN [st |-> "ok", cp |-> b, n |-> 1]
        ELSE IF b >= 192 THEN [st |-> "ok", cp |-> 1040 + (b - 192), n |-> 1]
        ELSE IF b = 187 THEN [st |-> "ok", cp |-> 187, n |-> 1]
        ELSE IF b = 191 THEN [st |-> "ok", cp |-> 1111, n |-> 1]
        ELSE [st |-> "bad", cp |-> 0, n |-> 0]

DecodeLatin1(bytes, pos) == [st |-> "ok", cp |-> bytes[pos + 1], n |-> 1]

DecodeOne(bytes, pos, enc) ==
    CASE enc = e_cp1251 -> DecodeCp1251(bytes, pos)
      [] enc = e_latin_1 -> DecodeLatin1(bytes, pos)
      [] OTHER -> DecodeUtf8(bytes, pos)

\* the utf-8-sig decoder drops one byte-order mark at the start of the stream
SkipSig(bytes, pos, enc) ==
    IF enc = e_utf_8_sig /\ pos = 0 /\ Len(bytes) >= 3 /\ SubSeq(bytes, 1, 3) = BOM
    THEN 3
    ELSE pos

\* up to n characters decoded from offset pos: the characters, the offset
\* reached and the error met, "" if none
RECURSIVE ReadChars(_, _, _, _)
ReadChars(bytes, pos, enc, n) ==
    IF n = 0 \/ pos >= Len(bytes)
    THEN [chars |-> <<>>, pos |-> pos, err |-> ""]
    ELSE LET d == DecodeOne(bytes, pos, enc)
         IN  IF d.st # "ok"
             THEN [chars |-> <<>>, pos |-> pos, err |-> d.st]
             ELSE LET rest == ReadChars(bytes, pos + d.n, enc, n - 1)
                  IN  [chars |-> <<d.cp>> \o rest.chars, pos |-> rest.pos,
                       err |-> rest.err]

\* TextIOWrapper.read(n) on a strict decoder
read(bytes, pos, enc, n) == ReadChars(bytes, SkipSig(bytes, pos, enc), enc, n)

\* one character written by the UTF-8 writer
EncodeUtf8(c) ==
    IF c < 128 THEN <<c>>
    ELSE IF c < 2048 THEN <<192 + (c \div 64), 128 + (c % 64)>>
    ELSE IF c < 65536
    THEN <<224 + (c \div 4096), 128 + ((c \div 64) % 64), 128 + (c % 64)>>
    ELSE <<240 + (c \div 262144), 128 + ((c \div 4096) % 64),
           128 + ((c \div 64) % 64), 128 + (c % 64)>>

RECURSIVE Encode(_)
Encode(chars) ==
    IF chars = <<>> THEN <<>> ELSE EncodeUtf8(Head(chars)) \o Encode(Tail(chars))

\* what a text layer opened with the given newline argument does to the
\* characters it reads: "" hands every line ending through, "None" (the
\* default) turns CR LF and CR into LF
RECURSIVE NewlinesIn(_, _)
NewlinesIn(chars, newline) ==
    IF newline = "" \/ chars = <<>> THEN chars
    ELSE IF Head(chars) # 13 THEN <<Head(chars)>> \o NewlinesIn(Tail(chars), newline)
    ELSE IF Len(chars) >= 2 /\ chars[2] = 10
    THEN <<10>> \o NewlinesIn(Tail(Tail(chars)), newline)
    ELSE <<10>> \o NewlinesIn(Tail(chars), newline)

\* and to the characters it writes: "" writes them as they are, "None" writes
\* os.linesep for every LF
RECURSIVE NewlinesOut(_, _, _)
NewlinesOut(chars, newline, linesep) ==
    IF newline = "" \/ chars = <<>> THEN chars
    ELSE (IF Head(chars) = 10 THEN linesep ELSE <<Head(chars)>>)
         \o NewlinesOut(Tail(chars), newline, linesep)

\* reader = TextIOWrapper(raw_in, encoding=src_encoding, newline="")
reader_newlines_Default(chars) == NewlinesIn(chars, "None")
reader_newlines(chars) == NewlinesIn(chars, "")

\* out_file.open("w", encoding="utf-8", newline=""), and f_out.write(chunk)
\* appending to what is written
f_out_newlines(chars) == NewlinesOut(chars, "", <<13, 10>>)
write_Last(out, chunk) == Encode(f_out_newlines(chunk))
write(out, chunk) == out \o Encode(f_out_newlines(chunk))

\* from_bytes(sample).best(): none, or a label under which the sample decodes;
\* a sample cut at DETECT_MAX_BYTES (whole = FALSE) may end inside a character.
\* These are the answers a classifier of section 6 of the specification gives
Classifier(sample, whole) ==
    {<<>>} \cup
    {l \in Labels :
        LET r == ReadChars(sample, SkipSig(sample, 0, StreamEnc(l)), StreamEnc(l),
                           Len(sample))
        IN  r.err = "" \/ (r.err = "short" /\ ~whole)}

(***************************************************************************)
(* State.                                                                  *)
(***************************************************************************)
VARIABLES
    args,      \* the call: mode, root/input, out, overwrite, workers, recursive, posix
    fs,        \* the file system
    fs0,       \* the file system when the call started (history)
    bpc,       \* the call's position: start, running, returned, raised
    berr,      \* the exception the call raised, "" if none
    files,     \* batch_convert's candidate list
    sem,       \* the semaphore's value
    task,      \* one record per conversion, keyed by input path
    results,   \* batch_convert's results list
    wrote,     \* per path, the conversions that opened it for writing (history)
    exit_code, \* the exit code of the command-line process, -1 while it runs
    cp         \* one conversion at the level of bytes (SpecCopy)

vars == <<args, fs, fs0, bpc, berr, files, sem, task, results, wrote, exit_code, cp>>
apivars == <<args, fs, fs0, bpc, berr, files, sem, task, results, wrote, exit_code>>

\* the paths a call is given: as root or input, as output directory or output
Roots == {p_in, p_a, p_c, p_d, p_ghost}
OutSpecs == {p_out, p_out_d}
\* for one convert call also: a file path, an existing directory with a dot in
\* its name, and the input file itself
SingleOutSpecs == OutSpecs \cup {p_out_a, p_d, p_a}
\* the workers argument: negative, zero, positive
WorkerArgs == -1..MaxWorkers

\* a conversion that has not started: the Converter object plus the locals of
\* convert; existed records what out_path.exists() answered, read whether a byte
\* of the input has been read (history)
NewTask(pc, output_path) ==
    [pc |-> pc, output_path |-> output_path, out_path |-> <<>>,
     existed |-> FALSE, enc |-> "", exc |-> "", open |-> {}, read |-> FALSE,
     rep |-> {}, res |-> {}]

\* the locals of convert and _stream_copy for the file whose bytes are data;
\* pos is raw_in.tell(), out the bytes of the output file
CpRecord(pc, data, show_progress) ==
    [pc |-> pc, data |-> data, show_progress |-> show_progress,
     source_enc |-> <<>>, stream_enc |-> <<>>, pos |-> 0, chunk |-> <<>>,
     out |-> <<>>, last_pos |-> 0, bar |-> 0, read_bytes |-> 0, exc |-> ""]

CpIdle == CpRecord("idle", <<>>, FALSE)

Init ==
    /\ \E mode \in {"batch", "single"}, root \in Roots, out \in SingleOutSpecs,
          ow \in BOOLEAN, w \in WorkerArgs, rec \in BOOLEAN, px \in BOOLEAN :
          /\ mode = "batch" => out \in OutSpecs
          /\ args = [mode |-> mode, root |-> root, out |-> out, overwrite |-> ow,
                     workers |-> w, recursive |-> rec, posix |-> px]
    /\ \E qa \in Qualities, os \in OutStates : fs = Tree(qa, os)
    /\ fs0 = fs
    /\ bpc = "start"
    /\ berr = ""
    /\ files = {}
    /\ sem = 0
    /\ task = <<>>
    /\ results = <<>>
    /\ wrote = <<>>
    /\ exit_code = -1
    /\ cp = CpIdle

(***************************************************************************)
(* Converter.convert, one action per step of the thread that runs it.      *)
(***************************************************************************)
\* a block that closes its files only when it ends without an exception
with_exit_NoFinally(handles, raised) == IF raised THEN handles ELSE {}

\* the end of a with statement: every file it opened is closed, whether the
\* block ended normally or with an exception
with_exit(handles, raised) == {}

\* an exception leaves convert, through the with statement when one is open
Raise(p, e) ==
    [task EXCEPT ![p].pc = "exit", ![p].exc = e,
                 ![p].open = with_exit(task[p].open, TRUE)]

\* what stat().st_size measures: the file's writer and how far it got
SizeOf(e) == <<e.by, e.st>>

\* the test with the flag inverted
OverwriteDenied_Inverted(f, out_path, overwrite) == exists(f, out_path) /\ overwrite

\* the exists()/overwrite test of convert
OverwriteDenied(f, out_path, overwrite) == exists(f, out_path) /\ ~overwrite

\* _ensure_input_txt, _make_output_path and the overwrite test
ConvCheck(p) ==
    /\ task[p].pc = "check"
    /\ LET e == _ensure_input_txt(fs, p)
           out_path == _make_output_path(fs, p, task[p].output_path, FALSE)
       IN  IF e # "ok" THEN task' = Raise(p, e)
           ELSE IF OverwriteDenied(fs, out_path, args.overwrite)
           THEN task' = [Raise(p, "FileExistsError") EXCEPT
                            ![p].out_path = out_path,
                            ![p].existed = exists(fs, out_path)]
           ELSE task' = [task EXCEPT ![p].pc = "mkdir", ![p].out_path = out_path,
                                     ![p].existed = exists(fs, out_path)]
    /\ UNCHANGED <<cp, exit_code, args, fs, fs0, bpc, berr, files, sem, results, wrote>>

\* out_path.parent.mkdir(parents=True, exist_ok=True)
ConvMkdir(p) ==
    /\ task[p].pc = "mkdir"
    /\ LET d == Parent(task[p].out_path)
       IN  IF MkdirFails(fs, d)
           THEN /\ task' = Raise(p, "FileExistsError")
                /\ fs' = fs
           ELSE /\ task' = [task EXCEPT ![p].pc = "detect"]
                /\ fs' = Mkdir(fs, d)
    /\ UNCHANGED <<cp, exit_code, args, fs0, bpc, berr, files, sem, results, wrote>>

\* from_bytes(sample).best(): the label, or "" when the classifier has no match
Classify(q) == IF q = "binary" THEN "" ELSE "utf_8"

\* _detect_encoding: reads the sample, closes the file, classifies
ConvDetect(p) ==
    /\ task[p].pc = "detect"
    /\ LET label == Classify(fs[p].q)
       IN  IF label = ""
           THEN task' = [Raise(p, "ValueError") EXCEPT ![p].read = TRUE]
           ELSE task' = [task EXCEPT ![p].pc = "open", ![p].enc = label,
                                     ![p].read = TRUE]
    /\ UNCHANGED <<cp, exit_code, args, fs, fs0, bpc, berr, files, sem, results, wrote>>

\* open(out_file, "w") raises on a directory or under a missing directory
OpenWriteFails(f, out_file) == is_dir(f, out_file) \/ ~is_dir(f, Parent(out_file))

\* _stream_copy up to the with statement's first item: the input open
ConvOpenIn(p) ==
    /\ task[p].pc = "open"
    /\ task' = [task EXCEPT ![p].pc = "open_out", ![p].open = {"in"}]
    /\ UNCHANGED <<cp, exit_code, args, fs, fs0, bpc, berr, files, sem, results, wrote>>

\* the with statement's second item: the output open and truncated, or the
\* exception open raises
ConvOpen(p) ==
    /\ task[p].pc = "open_out"
    /\ LET o == task[p].out_path
       IN  IF OpenWriteFails(fs, o)
           THEN /\ task' = Raise(p, IF is_dir(fs, o) THEN "IsADirectoryError"
                                    ELSE "FileNotFoundError")
                /\ UNCHANGED <<fs, wrote>>
           ELSE /\ task' = [task EXCEPT ![p].pc = "copy",
                                          ![p].open = task[p].open \cup {"out"}]
                /\ fs' = Put(fs, o, File(p, "empty", "text"))
                /\ wrote' = Put(wrote, o,
                                (IF o \in DOMAIN wrote THEN wrote[o] ELSE {}) \cup {p})
    /\ UNCHANGED <<cp, exit_code, args, fs0, bpc, berr, files, sem, results>>

\* the read/write loop of _stream_copy and the end of its with statement: the
\* strict decoder raises on the first invalid byte, leaving what was written;
\* an input that the open has just emptied yields an empty output; a read or
\* a write may also fail in the operating system
IOFaults == {"", "OSError"}

ConvCopy(p) ==
    /\ task[p].pc = "copy"
    /\ LET o == task[p].out_path
       IN  \E fault \in IOFaults :
           IF fault # ""
           THEN /\ task' = Raise(p, fault)
                /\ fs' = Put(fs, o, File(p, "partial", "text"))
           ELSE IF fs[p].q = "badtail"
           THEN /\ task' = Raise(p, "UnicodeDecodeError")
                /\ fs' = Put(fs, o, File(p, "partial", "text"))
           ELSE /\ task' = [task EXCEPT ![p].pc = "stat",
                                        ![p].open = with_exit(task[p].open, FALSE)]
                /\ fs' = Put(fs, o, File(p, IF fs[p].st = "empty" THEN "empty"
                                            ELSE "full", "text"))
    /\ UNCHANGED <<cp, exit_code, args, fs0, bpc, berr, files, sem, results, wrote>>

ConversionReport(p, t, f) ==
    [input_path |-> p, output_path |-> t.out_path, detected_encoding |-> t.enc,
     bytes_in |-> SizeOf(f[p]), bytes_out |-> SizeOf(f[t.out_path])]

\* out_path.stat().st_size and the report
ConvStat(p) ==
    /\ task[p].pc = "stat"
    /\ task' = [task EXCEPT ![p].pc = "exit",
                            ![p].rep = {ConversionReport(p, task[p], fs)}]
    /\ UNCHANGED <<cp, exit_code, args, fs, fs0, bpc, berr, files, sem, results, wrote>>

(***************************************************************************)
(* Converter.batch_convert.                                                *)
(***************************************************************************)
\* a failure item that keeps the report slot filled and drops the error text
BatchItemResult_NoError(p, t) ==
    [path |-> p, ok |-> t.exc = "", report |-> {t.enc}, error |-> {}]

\* the two return statements of run_one
BatchItemResult(p, t) ==
    IF t.exc = ""
    THEN [path |-> p, ok |-> TRUE, report |-> t.rep, error |-> {}]
    ELSE [path |-> p, ok |-> FALSE, report |-> {}, error |-> {t.exc}]

\* batch_convert up to the creation of the coroutines
BatchStart ==
    /\ args.mode = "batch"
    /\ bpc = "start"
    /\ LET root == args.root
           found == _collect_txt_files(fs, root, args.recursive, args.posix)
       IN  IF ~exists(fs, root)
           THEN /\ bpc' = "raised" /\ berr' = "FileNotFoundError"
                /\ UNCHANGED <<fs, files, sem, task>>
           ELSE IF found = {}
           THEN /\ bpc' = "raised" /\ berr' = "ValueError"
                /\ UNCHANGED <<fs, files, sem, task>>
           ELSE IF MkdirFails(fs, args.out)
           THEN /\ bpc' = "raised" /\ berr' = "FileExistsError"
                /\ files' = found
                /\ UNCHANGED <<fs, sem, task>>
           ELSE /\ bpc' = "running" /\ berr' = ""
                /\ files' = found
                /\ fs' = Mkdir(fs, args.out)
                /\ sem' = SemInit(args.workers)
                /\ task' = [p \in found |->
                              NewTask("queued",
                                      _make_output_path(fs, p, args.out, TRUE))]
    /\ UNCHANGED <<cp, exit_code, args, fs0, results, wrote>>

\* a gate that lets every coroutine through
SemFree_Open(s) == TRUE

\* Semaphore.acquire returns at once only while the value is positive
SemFree(s) == s > 0

\* a slot handed back only by a conversion that succeeded
sem_release_OnSuccess(s, raised) == IF raised THEN s ELSE s + 1

\* the end of async with sem: the slot is handed back however the body ended
sem_release(s, raised) == s + 1

\* async with sem: entered, the conversion is handed to a thread
Acquire(p) ==
    /\ bpc = "running"
    /\ args.mode = "batch"
    /\ task[p].pc = "queued"
    /\ SemFree(sem)
    /\ sem' = sem - 1
    /\ task' = [task EXCEPT ![p].pc = "check"]
    /\ UNCHANGED <<cp, exit_code, args, fs, fs0, bpc, berr, files, results, wrote>>

\* an except clause that names only the errors convert raises itself
Caught_OwnErrors(e) == e \in {"FileNotFoundError", "ValueError", "FileExistsError"}

\* except Exception: every exception a conversion raises is one
Caught(e) == TRUE

\* the thread is done: the semaphore is released and run_one returns its result;
\* an exception its except clause did not catch would end batch_convert
RunOneExit(p) ==
    /\ args.mode = "batch"
    /\ bpc = "running"
    /\ task[p].pc = "exit"
    /\ sem' = sem_release(sem, task[p].exc # "")
    /\ IF task[p].exc = "" \/ Caught(task[p].exc)
       THEN /\ task' = [task EXCEPT ![p].pc = "result",
                                    ![p].res = {BatchItemResult(p, task[p])}]
            /\ UNCHANGED <<bpc, berr>>
       ELSE /\ task' = [task EXCEPT ![p].pc = "collected"]
            /\ bpc' = "raised"
            /\ berr' = task[p].exc
    /\ UNCHANGED <<cp, exit_code, args, fs, fs0, files, results, wrote>>

\* one turn of the as_completed loop
Collect(p) ==
    /\ bpc = "running"
    /\ task[p].pc = "result"
    /\ results' = results \o <<CHOOSE r \in task[p].res : TRUE>>
    /\ task' = [task EXCEPT ![p].pc = "collected"]
    /\ UNCHANGED <<cp, exit_code, args, fs, fs0, bpc, berr, files, sem, wrote>>

BatchReturn ==
    /\ args.mode = "batch"
    /\ bpc = "running"
    /\ \A p \in DOMAIN task : task[p].pc = "collected"
    /\ bpc' = "returned"
    /\ UNCHANGED <<cp, exit_code, args, fs, fs0, berr, files, sem, task, results, wrote>>

(***************************************************************************)
(* One Converter(input, output, overwrite).convert() call.                 *)
(***************************************************************************)
SingleStart ==
    /\ args.mode = "single"
    /\ bpc = "start"
    /\ bpc' = "running"
    /\ task' = (args.root :> NewTask("check", args.out))
    /\ UNCHANGED <<cp, exit_code, args, fs, fs0, berr, files, sem, results, wrote>>

SingleEnd ==
    /\ args.mode = "single"
    /\ bpc = "running"
    /\ task[args.root].pc = "exit"
    /\ bpc' = IF task[args.root].exc = "" THEN "returned" ELSE "raised"
    /\ berr' = task[args.root].exc
    /\ task' = [task EXCEPT ![args.root].pc = "collected"]
    /\ UNCHANGED <<cp, exit_code, args, fs, fs0, files, sem, results, wrote>>

(***************************************************************************)
(* main: the command-line process around either call.                      *)
(***************************************************************************)
\* main runs batch_convert when src is a directory and convert otherwise
FromMain == (args.mode = "batch") <=> is_dir(fs0, args.root)

\* the end of the process: main returns after printing its report (no
\* sys.exit: the code is 0), or the call's exception leaves main uncaught
\* (the interpreter ends with 1)
MainExit ==
    /\ FromMain
    /\ bpc \in {"returned", "raised"}
    /\ exit_code = -1
    /\ exit_code' = IF bpc = "raised" THEN 1 ELSE 0
    /\ UNCHANGED <<cp, args, fs, fs0, bpc, berr, files, sem, task, results, wrote>>

(***************************************************************************)
(* One conversion at the level of bytes: convert from _detect_encoding on, *)
(* with _stream_copy's loop one read or one write at a time.               *)
(***************************************************************************)
InitCopy ==
    /\ \E data \in Contents, sp \in BOOLEAN : cp = CpRecord("detect", data, sp)
    /\ args = [mode |-> "copy"]
    /\ fs = <<>>
    /\ fs0 = <<>>
    /\ bpc = "start"
    /\ berr = ""
    /\ files = {}
    /\ sem = 0
    /\ task = <<>>
    /\ results = <<>>
    /\ wrote = <<>>
    /\ exit_code = -1

\* _detect_encoding and the choice of stream_enc
CpDetect ==
    /\ cp.pc = "detect"
    /\ LET whole == Len(cp.data) <= DETECT_MAX_BYTES
           sample == IF whole THEN cp.data
                     ELSE SubSeq(cp.data, 1, DETECT_MAX_BYTES)
       IN  \E label \in Classifier(sample, whole) :
              IF label = <<>>
              THEN cp' = [cp EXCEPT !.pc = "raised", !.exc = "ValueError"]
              ELSE cp' = [cp EXCEPT !.pc = "open", !.source_enc = label,
                                    !.stream_enc = StreamEnc(label)]
    /\ UNCHANGED apivars

\* _stream_copy: the two files opened, the output truncated
CpOpen ==
    /\ cp.pc = "open"
    /\ cp' = [cp EXCEPT !.pc = "read", !.out = <<>>, !.pos = 0]
    /\ UNCHANGED apivars

\* chunk = reader.read(READ_CHARS); an empty chunk ends the loop, and
\* read_bytes = raw_in.tell()
CpRead ==
    /\ cp.pc = "read"
    /\ LET r == read(cp.data, cp.pos, cp.stream_enc, READ_CHARS)
       IN  IF r.err # ""
           THEN cp' = [cp EXCEPT !.pc = "raised", !.exc = "UnicodeDecodeError"]
           ELSE IF r.chars = <<>>
           THEN cp' = [cp EXCEPT !.pc = "returned", !.pos = r.pos,
                                 !.read_bytes = r.pos]
           ELSE cp' = [cp EXCEPT !.pc = "write", !.pos = r.pos,
                                 !.chunk = reader_newlines(r.chars)]
    /\ UNCHANGED apivars

\* f_out.write(chunk), and the progress bar's update when there is one
CpWrite ==
    /\ cp.pc = "write"
    /\ cp' = [cp EXCEPT !.pc = "read", !.out = write(cp.out, cp.chunk),
                        !.chunk = <<>>,
                        !.bar = IF cp.show_progress
                                THEN cp.bar + (cp.pos - cp.last_pos) ELSE cp.bar,
                        !.last_pos = IF cp.show_progress THEN cp.pos
                                     ELSE cp.last_pos]
    /\ UNCHANGED apivars

NextCopy ==
    \/ CpDetect
    \/ CpOpen
    \/ CpRead
    \/ CpWrite

SpecCopy == InitCopy /\ [][NextCopy]_vars

Next ==
    \/ BatchStart
    \/ BatchReturn
    \/ SingleStart
    \/ SingleEnd
    \/ MainExit
    \/ \E p \in DOMAIN task : Acquire(p)
    \/ \E p \in DOMAIN task : ConvCheck(p)
    \/ \E p \in DOMAIN task : ConvMkdir(p)
    \/ \E p \in DOMAIN task : ConvDetect(p)
    \/ \E p \in DOMAIN task : ConvOpenIn(p)
    \/ \E p \in DOMAIN task : ConvOpen(p)
    \/ \E p \in DOMAIN task : ConvCopy(p)
    \/ \E p \in DOMAIN task : ConvStat(p)
    \/ \E p \in DOMAIN task : RunOneExit(p)
    \/ \E p \in DOMAIN task : Collect(p)

Spec == Init /\ [][Next]_vars

\* batch_convert('in', 'out', ...) with out not there yet, on its own, for the
\* questions about its progress: the event loop runs every coroutine that can run and every thread
\* that to_thread started keeps running, so a step that stays possible is taken
InitBatch ==
    /\ Init
    /\ args.mode = "batch" /\ args.root = p_in /\ args.out = p_out
    /\ ~exists(fs, p_out)

NextBatch ==
    \/ BatchStart
    \/ BatchReturn
    \/ MainExit
    \/ \E p \in DOMAIN task : Acquire(p)
    \/ \E p \in DOMAIN task : ConvCheck(p)
    \/ \E p \in DOMAIN task : ConvMkdir(p)
    \/ \E p \in DOMAIN task : ConvDetect(p)
    \/ \E p \in DOMAIN task : ConvOpenIn(p)
    \/ \E p \in DOMAIN task : ConvOpen(p)
    \/ \E p \in DOMAIN task : ConvCopy(p)
    \/ \E p \in DOMAIN task : ConvStat(p)
    \/ \E p \in DOMAIN task : RunOneExit(p)
    \/ \E p \in DOMAIN task : Collect(p)

FairSpec == InitBatch /\ [][NextBatch]_vars /\ WF_vars(NextBatch)

(***************************************************************************)
(* Properties of the batch driver and of convert, checked under Spec.      *)
(***************************************************************************)
Batch == args.mode = "batch"
Single == args.mode = "single"

\* the conversions inside convert (their thread runs, their slot is held)
InConvert ==
    {p \in DOMAIN task :
        task[p].pc \in {"check", "mkdir", "detect", "open", "open_out", "copy", "stat",
                         "exit"}}

Queued == {p \in DOMAIN task : task[p].pc = "queued"}

HoldingHandles == {p \in DOMAIN task : task[p].open # {}}

\* C1: in a batch with concurrency limit C >= 1, at most C conversions are
\* inside convert at any instant, only those hold open file handles, and the
\* semaphore counts exactly the free slots, so a queued candidate enters only
\* after a running conversion has released its slot.
C1_ConcurrencyBound ==
    (Batch /\ args.workers >= 1 /\ bpc = "running") =>
        /\ Cardinality(InConvert) <= args.workers
        /\ HoldingHandles \subseteq InConvert
        /\ sem = args.workers - Cardinality(InConvert)

\* C1 witness: more candidates than slots, every slot taken by a conversion
\* that holds its files open, and a candidate waiting
C1_Witness ==
    /\ Batch /\ args.workers >= 1
    /\ Cardinality(files) > args.workers
    /\ Cardinality(InConvert) = args.workers
    /\ HoldingHandles = InConvert
    /\ Queued # {}

Failed == {p \in DOMAIN task : task[p].exc # ""}

OkResults == {i \in 1..Len(results) : results[i].ok}

\* C2: once candidates are found and the output directory made, batch_convert
\* never raises; when it returns, results holds exactly one item per candidate,
\* the items of the conversions that raised are the failed ones (N-K are ok),
\* and every conversion that did not raise itself ran to its report.
C2_BatchIsolation ==
    (Batch /\ DOMAIN task # {}) =>
        /\ bpc # "raised"
        /\ bpc = "returned" =>
              /\ Len(results) = Cardinality(files)
              /\ \A p \in files :
                    Cardinality({i \in 1..Len(results) : results[i].path = p}) = 1
              /\ Cardinality(OkResults) = Cardinality(files) - Cardinality(Failed)
              /\ \A i \in 1..Len(results) :
                    results[i].ok <=> results[i].path \notin Failed
              /\ \A p \in files \ Failed :
                    /\ task[p].rep # {}
                    /\ p \in wrote[task[p].out_path]

\* C2 witness: a returned batch of three candidates of which some raised and
\* some did not
C2_Witness ==
    /\ Batch /\ bpc = "returned"
    /\ Cardinality(files) = 3
    /\ Failed # {}
    /\ files \ Failed # {}

\* C3: a convert whose resolved output path exists while overwrite is false
\* raises FileExistsError having read no byte of the input, opened nothing and
\* written nothing; in a single convert call the file system is then exactly
\* what it was before the call.
C3_OverwriteDenied ==
    \A p \in DOMAIN task :
        (task[p].existed /\ ~args.overwrite) =>
            /\ task[p].exc = "FileExistsError"
            /\ task[p].pc \in {"exit", "result", "collected"}
            /\ ~task[p].read
            /\ task[p].open = {}
            /\ \A o \in DOMAIN wrote : p \notin wrote[o]
            /\ Single => fs = fs0

\* C3 witness: a single convert refused because out/a.txt was there
C3_Witness ==
    /\ Single /\ bpc = "raised" /\ berr = "FileExistsError"
    /\ task[args.root].existed
    /\ is_file(fs0, task[args.root].out_path)

\* C4: every BatchItemResult carries a report and no error when ok, an error
\* and no report when not ok.
C4_ExactlyOneOfReportError ==
    \A i \in 1..Len(results) :
        LET r == results[i]
        IN  /\ r.ok <=> (r.report # {} /\ r.error = {})
            /\ ~r.ok <=> (r.error # {} /\ r.report = {})
            /\ Cardinality(r.report) + Cardinality(r.error) = 1

\* C4 witness: a returned batch with a successful and a failed item
C4_Witness ==
    /\ Batch /\ bpc = "returned"
    /\ \E i, j \in 1..Len(results) : results[i].ok /\ ~results[j].ok

\* the claim's candidate set: the root itself, or the regular files under it
\* (direct children unless recursive) whose extension is .txt in any letter case
ClaimedCandidates ==
    IF is_file(fs0, args.root)
    THEN IF Lower(Suffix(args.root)) = dot_txt THEN {args.root} ELSE {}
    ELSE {p \in DOMAIN fs0 :
            /\ Len(p) > Len(args.root)
            /\ SubSeq(p, 1, Len(args.root)) = args.root
            /\ (args.recursive \/ Len(p) = Len(args.root) + 1)
            /\ is_file(fs0, p)
            /\ Lower(Suffix(p)) = dot_txt}

\* the output directory, or a directory above it, is a regular file
OutDirBlocked == \E q \in Prefixes(args.out) : is_file(fs0, q)

\* C5 as stated: batch_convert raises only for a missing root or an empty
\* candidate set.
C5_RaisesOnlyNotFoundOrNoInput ==
    (Batch /\ bpc = "raised") =>
        \/ ~exists(fs0, args.root)
        \/ _collect_txt_files(fs0, args.root, args.recursive, args.posix) = {}

\* C5 amended: batch_convert raises in exactly three situations, decided before
\* any conversion starts: the root does not exist (FileNotFoundError), no
\* candidate is found (ValueError), or the output directory cannot be made
\* because it or a directory above it is a regular file (FileExistsError);
\* in every other situation it never raises, whatever the conversions do.
C5_RaisesExactlyThree ==
    (Batch /\ bpc # "start") =>
        LET found == _collect_txt_files(fs0, args.root, args.recursive, args.posix)
            missing == ~exists(fs0, args.root)
        IN  /\ bpc = "raised" <=> (missing \/ found = {} \/ OutDirBlocked)
            /\ bpc = "raised" =>
                  /\ DOMAIN task = {}
                  /\ fs = fs0
                  /\ berr = IF missing THEN "FileNotFoundError"
                            ELSE IF found = {} THEN "ValueError"
                            ELSE "FileExistsError"

\* C5 witness: candidates were found and batch_convert raised on the output
\* directory
C5_Witness ==
    /\ Batch /\ bpc = "raised" /\ berr = "FileExistsError"
    /\ files # {}
    /\ is_file(fs0, args.out)

\* C6 as stated: the candidate list is the claim's candidate set.
C6_Discovery ==
    (Batch /\ bpc = "running") => files = ClaimedCandidates

\* C7 as stated: every batch conversion writes at outputDir/<basename>.
C7_WritesUnderOutputDir ==
    Batch =>
        \A o \in DOMAIN wrote : \A p \in wrote[o] : o = Append(args.out, Name(p))

\* C8 as stated: with overwrite false no output path of a batch is opened for
\* writing by two conversions.
C8_NoDoubleWrite ==
    (Batch /\ ~args.overwrite) =>
        \A o \in DOMAIN wrote : Cardinality(wrote[o]) <= 1

\* the reports a finished call has handed out
Reports ==
    IF Batch THEN UNION {results[i].report : i \in 1..Len(results)}
    ELSE UNION {task[p].rep : p \in DOMAIN task}

\* C11 as stated: once the call has returned, every report's bytes_out is
\* the size of the file at its output_path.
C11_BytesOutIsSizeOnDisk ==
    bpc = "returned" =>
        \A r \in Reports : r.bytes_out = SizeOf(fs[r.output_path])

\* a name has an extension when its last dot stands inside it, neither first
\* nor last
HasExtension(nm) ==
    \E k \in 2..(Len(nm) - 1) :
        nm[k] = "." /\ \A j \in (k + 1)..Len(nm) : nm[j] # "."

\* the output path the single-file rule gives for the call's arguments
ResolvedOutput ==
    IF ~HasExtension(Name(args.out)) \/ is_dir(fs0, args.out)
    THEN Append(args.out, Name(args.root))
    ELSE args.out

\* the first precondition of convert the call's arguments violate, "" if none
FirstViolated ==
    IF ~(exists(fs0, args.root) /\ fs0[args.root].kind = "file")
    THEN "FileNotFoundError"
    ELSE IF Lower(SubSeq(Name(args.root), Len(Name(args.root)) - 3,
                         Len(Name(args.root)))) # dot_txt
    THEN "ValueError"
    ELSE IF exists(fs0, ResolvedOutput) /\ ~args.overwrite
    THEN "FileExistsError"
    ELSE ""

\* C13: a convert call whose arguments violate a precondition fails with the
\* error of the first one violated, in the order input missing or not a
\* regular file, extension not .txt, output exists without overwrite; it
\* creates no directory, creates or truncates no file and never reads the
\* input for detection.
C13_PreconditionOrder ==
    (Single /\ FirstViolated # "") =>
        /\ fs = fs0
        /\ wrote = <<>>
        /\ \A p \in DOMAIN task :
              /\ ~task[p].read
              /\ task[p].open = {}
              /\ task[p].pc \in {"check", "exit", "collected"}
              /\ task[p].pc # "check" => task[p].exc = FirstViolated
        /\ bpc \notin {"returned"}
        /\ bpc = "raised" => berr = FirstViolated

\* C13 witness: a call that violates the second and the third precondition
\* (a .csv input, an existing output file, no overwrite) has failed on the
\* second
C13_Witness ==
    /\ Single /\ bpc = "raised"
    /\ args.root = p_c /\ args.out = p_out_a /\ ~args.overwrite
    /\ exists(fs0, p_out_a)
    /\ berr = "ValueError"

\* C14: in a single convert call, an output specification without a file
\* extension, or one naming an existing directory, resolves to the input's
\* base name inside it; any other specification is the output path verbatim.
C14_SingleOutputResolution ==
    Single =>
        \A p \in DOMAIN task :
            task[p].out_path # <<>> =>
                /\ p = args.root
                /\ task[p].out_path = ResolvedOutput
                /\ \A q \in DOMAIN wrote : q = ResolvedOutput

\* C14 witness: an existing directory with a dot in its name, given as the
\* output, has received the converted file under the input's name
C14_Witness ==
    /\ Single /\ bpc = "returned"
    /\ args.out = p_d /\ is_dir(fs0, p_d) /\ HasExtension(Name(p_d))
    /\ is_file(fs, Append(p_d, Name(args.root)))
    /\ fs[Append(p_d, Name(args.root))].by = args.root

\* C15: a batch whose limit is zero or negative runs as with limit 1: the
\* semaphore starts at one free slot, conversions run one at a time, the call
\* raises only for the reasons it raises for under any limit, and it returns
\* one result per candidate.
C15_NonPositiveLimitIsOne ==
    (Batch /\ args.workers <= 0) =>
        /\ bpc = "running" =>
              /\ Cardinality(InConvert) <= 1
              /\ sem = 1 - Cardinality(InConvert)
        /\ bpc = "raised" =>
              \/ ~exists(fs0, args.root)
              \/ _collect_txt_files(fs0, args.root, args.recursive, args.posix) = {}
              \/ OutDirBlocked
        /\ bpc = "returned" =>
              /\ Len(results) = Cardinality(files)
              /\ \A p \in files : \E i \in 1..Len(results) : results[i].path = p

\* C15 witness: a batch with a negative limit and several candidates has
\* returned all its results, and one conversion waited while another ran
C15_Witness ==
    /\ Batch /\ args.workers < 0
    /\ Cardinality(files) >= 2
    /\ bpc = "returned"
    /\ Len(results) = Cardinality(files)
    /\ OkResults # {}

\* C16 as stated: the process ends with exit code zero only when every
\* conversion succeeded; a failed batch item or a raised call ends it with a
\* non-zero code.
C16_ExitCodeReflectsFailures ==
    exit_code # -1 =>
        (exit_code = 0 <=>
            /\ bpc = "returned"
            /\ \A i \in 1..Len(results) : results[i].ok)

\* C17: a conversion holds file handles only between the opening of its
\* input and the end of its with statement; once convert has returned or
\* raised, whatever the exit path, none of its handles is open, in a single
\* call and in every conversion of a batch.
C17_HandlesReleased ==
    /\ \A p \in DOMAIN task :
          /\ task[p].pc \in {"stat", "exit", "result", "collected"} =>
                task[p].open = {}
          /\ task[p].open # {} => task[p].pc \in {"open_out", "copy"}
    /\ bpc \in {"returned", "raised"} => HoldingHandles = {}

\* C17 witness: a single call opened its input, could not open its output (a
\* directory stands at the output path) and raised; no handle is left
C17_Witness ==
    /\ Single /\ bpc = "raised" /\ berr = "IsADirectoryError"
    /\ \A p \in DOMAIN task : task[p].read /\ task[p].open = {}
    /\ is_dir(fs, ResolvedOutput)

\* C19 as stated: convert never modifies its input: the file at every input
\* path keeps the bytes it had when the call started, and a conversion whose
\* output path is its input path never opens it for writing.
C19_InputUnchanged ==
    \A p \in DOMAIN task :
        /\ is_file(fs0, p) => fs[p] = fs0[p]
        /\ task[p].out_path = p => ~(p \in DOMAIN wrote /\ p \in wrote[p])

\* C20, under FairSpec: a batch that has started its conversions eventually
\* returns with one result per candidate, no candidate left waiting for a slot
\* and every slot handed back, whatever way each conversion ended; no state
\* short of that is one the batch stays in.
C20_BatchTerminates ==
    (Batch /\ bpc = "running")
        ~> /\ bpc = "returned"
           /\ Len(results) = Cardinality(files)
           /\ Queued = {}
           /\ sem = Max(1, args.workers)

\* C20 witness: a batch with more candidates than slots has returned after
\* one of its conversions failed
C20_Witness ==
    /\ Batch /\ bpc = "returned"
    /\ Cardinality(files) > Max(1, args.workers)
    /\ Failed # {}
    /\ OkResults # {}
    /\ sem = Max(1, args.workers)

(***************************************************************************)
(* Properties of the transcoder, checked under SpecCopy.                   *)
(***************************************************************************)
\* C9 as stated: no input makes the transcode raise a decode error, and a
\* finished _stream_copy has consumed the whole file and returns its size.
C9_DecodeErrorsReplaced ==
    /\ cp.exc # "UnicodeDecodeError"
    /\ cp.pc = "returned" => (cp.pos = Len(cp.data) /\ cp.read_bytes = Len(cp.data))

StartsWithBOM(bytes) == Len(bytes) >= 3 /\ SubSeq(bytes, 1, 3) = BOM

\* C10 as stated: the output of a successful conversion never starts with a
\* byte-order mark.
C10_NoBomInOutput ==
    cp.pc = "returned" => ~StartsWithBOM(cp.out)

\* the whole input decoded in one go under stream_enc, and the output read
\* back as UTF-8
DecodedText ==
    ReadChars(cp.data, SkipSig(cp.data, 0, cp.stream_enc), cp.stream_enc,
              Len(cp.data)).chars

OutputText == ReadChars(cp.out, 0, e_utf_8, Len(cp.out)).chars

\* the line-ending characters of a text, each with its position
LineEndings(text) == {<<k, text[k]>> : k \in {j \in 1..Len(text) : text[j] \in {10, 13}}}

\* C12: when the copy has returned, the output has the line-ending
\* characters of the decoded input, LF, CR and CR LF alike, each unchanged and
\* at the position it had.
C12_NewlinesPassThrough ==
    cp.pc = "returned" =>
        /\ Len(OutputText) = Len(DecodedText)
        /\ LineEndings(OutputText) = LineEndings(DecodedText)

\* a returned copy of a text longer than a chunk with a CR LF pair and a CR
\* that no LF follows
C12_Witness ==
    /\ cp.pc = "returned"
    /\ Len(DecodedText) > READ_CHARS
    /\ \E k \in 1..(Len(DecodedText) - 1) :
          DecodedText[k] = 13 /\ DecodedText[k + 1] = 10
    /\ \E k \in 1..Len(DecodedText) :
          DecodedText[k] = 13 /\ (k = Len(DecodedText) \/ DecodedText[k + 1] # 10)
    /\ cp.out = cp.data

\* what one-shot decoding gives for the first n bytes of the input
DecodedUpTo(n) ==
    ReadChars(SubSeq(cp.data, 1, n), SkipSig(cp.data, 0, cp.stream_enc),
              cp.stream_enc, n).chars

\* C18: the copy holds at most one chunk of at most READ_CHARS characters; a
\* chunk read is written before the next is read, so at every read the output
\* is the encoding of everything decoded so far, in order, and at the end it
\* is the encoding of the whole decoded text; the progress display changes
\* none of this.
C18_ChunksInOrder ==
    /\ Len(cp.chunk) <= READ_CHARS
    /\ cp.pc \in {"read", "returned"} =>
          /\ cp.chunk = <<>>
          /\ cp.out = Encode(DecodedUpTo(cp.pos))
    /\ cp.pc = "write" =>
          /\ cp.chunk # <<>>
          /\ cp.out \o Encode(cp.chunk) = Encode(DecodedUpTo(cp.pos))
    /\ cp.pc = "returned" =>
          /\ cp.pos = Len(cp.data)
          /\ cp.out = Encode(DecodedText)

\* C18 witness: a copy with the progress display has returned after writing
\* more than two chunks, the last one shorter than READ_CHARS
C18_Witness ==
    /\ cp.pc = "returned" /\ cp.show_progress
    /\ Len(DecodedText) > 2 * READ_CHARS
    /\ Len(DecodedText) % READ_CHARS # 0
    /\ cp.out = Encode(DecodedText)

====
